---- MODULE Spec2Model ----
(***************************************************************************)
(* Trajectory retargeting: the episode replay driver                       *)
(* (TargetEnvWrapper.generate_image), the displacement search of one task  *)
(* (generate_one_episode) and the dispatcher with its whitelist (main).    *)
(*                                                                         *)
(* Units.  Lengths are integers in units of 0.05/32 m, so that the step    *)
(* 0.05 of the search is 32 and its five halvings stay integral.  Gripper  *)
(* widths are integers in units of 0.1, the tolerance of the matching loop.*)
(* A pose is its position, a 3-tuple; the approach axis of reach_further   *)
(* is the x axis.  A frame is the index of the step that rendered it.      *)
(***************************************************************************)
EXTENDS Integers, Sequences, FiniteSets, TLC

\* ------------------------------------------------------------------ bounds
MaxPoses == 2       \* longest recorded episode (num_robot_poses)
MaxWidth == 3       \* gripper widths range over 0..MaxWidth

\* ------------------------------------------------------- program constants
GripTol == 1        \* the 0.1 of the matching loop, in width units
MaxAttempts == 10   \* attempt < 10
ExtendGripper == 2  \* ROBOT_CAMERA_POSES_DICT[robot_dataset]["extend_gripper"]

\* ------------------------------------------------------------------ vectors
Zero3 == <<0, 0, 0>>
VAdd(a, b) == <<a[1] + b[1], a[2] + b[2], a[3] + b[3]>>
VSub(a, b) == <<a[1] - b[1], a[2] - b[2], a[3] - b[3]>>

\* ------------------------------------------------------------- file system
\* A file system is a set of [path, body]; a path is <<kind, robot, episode>>.
MaskDir(name) == <<"dir", name, "replay_mask">>
VideoDir(name) == <<"dir", name, "replay_video">>
StateDir(name) == <<"dir", name, "target_robot_states">>
MaskPath(name, episode) == <<"mask", name, episode>>
VideoPath(name, episode) == <<"video", name, episode>>
StatePath(name, episode) == <<"state", name, episode>>

Mkdir(fs, path) == IF \E f \in fs : f.path = path THEN fs
                   ELSE fs \cup {[path |-> path, body |-> <<>>]}
WriteFile(fs, path, body) ==
    {f \in fs : f.path # path} \cup {[path |-> path, body |-> body]}
Exists(fs, path) == \E f \in fs : f.path = path
Artifacts(fs, name, episode) ==
    {f \in fs : f.path \in {MaskPath(name, episode), VideoPath(name, episode),
                            StatePath(name, episode)}}

\* ---------------------------------------------------------------- replay
\* core.signal.reach_further: the target moved forward along the approach axis.
reach_further(target_pose, distance) ==
    <<target_pose[1] + distance, target_pose[2], target_pose[3]>>

\* for viewpoint in info["viewpoints"]: if episode in viewpoint["episodes"]
\* The index of the first viewpoint holding the episode, 0 when none does.
\* The lookup that falls back on the first viewpoint listed.
FirstListed(viewpoints, episode, i) == 1
RECURSIVE FirstViewpoint(_, _, _)
FirstViewpoint(viewpoints, episode, i) ==
    IF i > Len(viewpoints) THEN 0
    ELSE IF episode \in viewpoints[i].episodes THEN i
    ELSE FirstViewpoint(viewpoints, episode, i + 1)

\* generate_image up to the loop: the locals, the camera, the directories.
\* camera_pose is bound only inside the viewpoint loop, so camera_pose[:3] -=
\* robot_disp raises when no viewpoint holds the episode.
Enter(c, d, viewpoints, fs) ==
    LET vp == FirstViewpoint(viewpoints, c.episode, 1)
        fs1 == IF c.dry_run THEN fs
               ELSE Mkdir(Mkdir(fs, MaskDir(c.target_name)), VideoDir(c.target_name))
    IN  IF vp = 0
        THEN [raised |-> TRUE, fs |-> fs, camera |-> <<>>, loc |-> <<>>]
        ELSE [raised |-> FALSE,
              fs |-> fs1,
              camera |-> <<vp, c.robot_disp>>,
              loc |-> [robot_disp |-> c.robot_disp,
                       target_pose_array |-> d.pos,
                       gripper_array |-> d.grip,
                       num_robot_poses |-> Len(d.pos),
                       target_pose_list |-> <<>>,
                       joint_angles_list |-> <<>>,
                       gripper_width_list |-> <<>>,
                       success |-> TRUE,
                       mask_frames |-> <<>>,
                       video_frames |-> <<>>,
                       suggestion |-> Zero3,
                       pose_index |-> 0,
                       target_pose |-> Zero3,
                       gripper_dist |-> 0,
                       attempt |-> 0]]

\* The head of one loop iteration: the remapped target and the first reading
\* of the gripper.  target_pose is a copy of the row, and -= changes the copy.
\* The head that takes the row without copying it: -= changes the row.
StepBeginNoCopy(loc, c, gripper) ==
    [loc EXCEPT !.target_pose_array[loc.pose_index + 1] =
                    VSub(loc.target_pose_array[loc.pose_index + 1], loc.robot_disp),
                !.target_pose =
                    reach_further(VSub(loc.target_pose_array[loc.pose_index + 1],
                                       loc.robot_disp), ExtendGripper),
                !.gripper_dist = gripper,
                !.attempt = 0]
StepBegin(loc, c, gripper) ==
    [loc EXCEPT !.target_pose =
                    reach_further(VSub(loc.target_pose_array[loc.pose_index + 1],
                                       loc.robot_disp), ExtendGripper),
                !.gripper_dist = gripper,
                !.attempt = 0]

\* The condition of the matching loop.
OutOfTolerance(gripper_dist, target) ==
    gripper_dist < target - GripTol \/ gripper_dist > target + GripTol
\* The loop without its attempt limit.
MatchCondNoLimit(gripper_dist, target, attempt) ==
    OutOfTolerance(gripper_dist, target)
MatchCond(gripper_dist, target, attempt) ==
    /\ OutOfTolerance(gripper_dist, target)
    /\ attempt < MaxAttempts

\* The command of one iteration of the matching loop: gripper_open.
GripperOpen(gripper_dist, target) == gripper_dist < target - GripTol

\* What the simulator may do with one command: move one unit, or not move.
GripperAfter(gripper, open) ==
    IF open THEN {gripper, IF gripper < MaxWidth THEN gripper + 1 ELSE gripper}
    ELSE {gripper, IF gripper > 0 THEN gripper - 1 ELSE gripper}

\* The body of the loop after drive_robot_to_target_pose answered.
\* The abort that ignores unlimited.
AbortsOnMiss(unlimited, target_reached) == ~target_reached
Aborts(unlimited, target_reached) == unlimited = FALSE /\ ~target_reached

\* The frames of one step, lines 157-164.
\* The recording that keeps the mask frame and drops the RGB frame.
RecordMaskOnly(loc, dry_run) ==
    IF ~dry_run
    THEN [loc EXCEPT !.mask_frames = Append(@, loc.pose_index)]
    ELSE loc
RecordFrames(loc, dry_run) ==
    IF ~dry_run
    THEN [loc EXCEPT !.mask_frames = Append(@, loc.pose_index),
                     !.video_frames = Append(@, loc.pose_index)]
    ELSE loc

AfterDrive(loc, c, target_reached, target_reached_pose, gripper) ==
    IF Aborts(c.unlimited, target_reached)
    THEN [brk |-> TRUE,
          loc |-> [loc EXCEPT !.success = FALSE,
                              !.suggestion = VSub(target_reached_pose, loc.target_pose)]]
    ELSE [brk |-> FALSE,
          loc |-> LET l1 == [loc EXCEPT
                       !.target_pose_list = Append(@, VAdd(target_reached_pose, loc.robot_disp)),
                       !.gripper_width_list = Append(@, gripper),
                       !.joint_angles_list = Append(@, target_reached_pose)]
                      l2 == RecordFrames(l1, c.dry_run)
                  IN  [l2 EXCEPT !.pose_index = @ + 1]]

\* After the loop: the two videos.  np.stack raises on an empty list.
\* The encoding that writes nothing.
EncodeNothing(loc, c, fs) == [raised |-> FALSE, fs |-> fs]
Encode(loc, c, fs) ==
    IF c.dry_run THEN [raised |-> FALSE, fs |-> fs]
    ELSE IF Len(loc.mask_frames) = 0
    THEN [raised |-> TRUE, fs |-> fs]
    ELSE [raised |-> FALSE,
          fs |-> WriteFile(WriteFile(fs, MaskPath(c.target_name, c.episode), loc.mask_frames),
                           VideoPath(c.target_name, c.episode), loc.video_frames)]

\* The end: the state archive on success, and the returned triple.
\* The return that archives the states of a dry run too.
ReturnArchiveAlways(loc, c, fs) ==
    [fs |-> IF loc.success
            THEN WriteFile(Mkdir(fs, StateDir(c.target_name)),
                           StatePath(c.target_name, c.episode),
                           [target_pose |-> loc.target_pose_list,
                            joint_angles |-> loc.joint_angles_list,
                            gripper_width |-> loc.gripper_width_list,
                            offsets |-> loc.robot_disp])
            ELSE fs,
     result |-> [success |-> loc.success,
                 suggestion |-> loc.suggestion,
                 steps |-> Len(loc.target_pose_list)]]
Return(loc, c, fs) ==
    [fs |-> IF loc.success /\ ~c.dry_run
            THEN WriteFile(Mkdir(fs, StateDir(c.target_name)),
                           StatePath(c.target_name, c.episode),
                           [target_pose |-> loc.target_pose_list,
                            joint_angles |-> loc.joint_angles_list,
                            gripper_width |-> loc.gripper_width_list,
                            offsets |-> loc.robot_disp])
            ELSE fs,
     result |-> [success |-> loc.success,
                 suggestion |-> loc.suggestion,
                 steps |-> Len(loc.target_pose_list)]]

\* ------------------------------------------------- one replay as a whole
\* The element of a set of one: Only({e(v) : v \in {x}}) is e of the value of
\* x, x computed once.
Only(S) == CHOOSE v \in S : TRUE

\* The matching loop against a gripper that moves one unit per command, or
\* is stuck: the width it ends at.
RECURSIVE MatchLoop(_, _, _, _)
MatchLoop(gripper, target, attempt, stuck) ==
    IF MatchCond(gripper, target, attempt)
    THEN Only({MatchLoop(g, target, a, stuck)
               : g \in {IF stuck THEN gripper
                        ELSE IF GripperOpen(gripper, target) THEN gripper + 1
                        ELSE gripper - 1},
                 a \in {attempt + 1}})
    ELSE gripper

\* The loop of generate_image against an oracle: oracle[k] is what the
\* simulator does at step k (reached, res, stuck).
LoopStep(loc, c, sm, o) ==
    LET l0 == StepBegin(loc, c, sm.gripper)
        g == MatchLoop(sm.gripper, loc.gripper_array[loc.pose_index + 1], 0, o.stuck)
        pose == IF o.reached THEN l0.target_pose ELSE VAdd(l0.target_pose, o.res)
        a == AfterDrive([l0 EXCEPT !.gripper_dist = g], c, o.reached, pose, g)
    IN  [brk |-> a.brk, loc |-> a.loc, sim |-> [sm EXCEPT !.gripper = g, !.eef = pose]]
RECURSIVE RunLoop(_, _, _, _)
RunLoop(loc, c, sm, oracle) ==
    IF loc.pose_index >= loc.num_robot_poses
    THEN [loc |-> loc, sim |-> sm]
    ELSE Only({IF s.brk THEN [loc |-> s.loc, sim |-> s.sim]
               ELSE RunLoop(s.loc, c, s.sim, oracle)
               : s \in {LoopStep(loc, c, sm, oracle[loc.pose_index + 1])}})

\* generate_image: raised, or the returned triple; the files and the
\* simulator it leaves.
AfterLoop(r, c, fs) ==
    Only({IF enc.raised
          THEN [raised |-> TRUE, result |-> <<>>, fs |-> enc.fs, sim |-> r.sim]
          ELSE Only({[raised |-> FALSE, result |-> ret.result, fs |-> ret.fs,
                      sim |-> r.sim]
                     : ret \in {Return(r.loc, c, enc.fs)}})
          : enc \in {Encode(r.loc, c, fs)}})
generate_image(c, d, vps, sm, fs, oracle) ==
    Only({IF e.raised
          THEN [raised |-> TRUE, result |-> <<>>, fs |-> e.fs, sim |-> sm]
          ELSE Only({AfterLoop(r, c, e.fs)
                     : r \in {RunLoop(e.loc, c, [sm EXCEPT !.camera = e.camera],
                                      oracle)}})
          : e \in {Enter(c, d, vps, fs)}})

\* ------------------------------------------------------------- one task
max_iter == 5       \* max_iter = 5
StepInit == 32      \* step = 0.05
DefaultDisp == <<64, -32, 0>>    \* ROBOT_POSE_DICT[robot_dataset][robot]
OffsetsPath(robot, episode) == <<"offsets", robot, episode>>

select_gripper(robot) ==
    IF robot = "Sawyer" THEN "RethinkGripper"
    ELSE IF robot = "Jaco" THEN "JacoThreeFingerGripper"
    ELSE IF robot \in {"IIWA", "UR5e", "Kinova3"} THEN "Robotiq85Gripper"
    ELSE IF robot = "Panda" THEN "PandaGripper"
    ELSE "ValueError"

\* Lines 40-44, outside the try: what is raised out of the task, if anything.
PreludeRaises(robot, fault) ==
    fault = "prelude" \/ select_gripper(robot) = "ValueError"

\* Lines 54-62.
InitialDisplacement(a, fs) ==
    IF a.load_displacement
    THEN IF Exists(fs, OffsetsPath(a.robot, a.episode))
         THEN (CHOOSE f \in fs : f.path = OffsetsPath(a.robot, a.episode)).body
         ELSE Zero3
    ELSE DefaultDisp

\* The locals of the search, lines 71-72.
SearchInit(a, fs) ==
    [displacement |-> InitialDisplacement(a, fs),
     step |-> StepInit,
     it |-> 0,
     candidates |-> <<>>,
     ci |-> 1,
     best_steps |-> -1,
     best_disp |-> InitialDisplacement(a, fs),
     ok |-> FALSE,
     steps |-> 0]

\* Lines 74-82.
\* The list without the unperturbed displacement at its head.
CandidatesPerturbed(displacement, step) ==
    <<VAdd(displacement, <<step, 0, 0>>), VSub(displacement, <<step, 0, 0>>),
      VAdd(displacement, <<0, step, 0>>), VSub(displacement, <<0, step, 0>>),
      VAdd(displacement, <<0, 0, step>>), VSub(displacement, <<0, 0, step>>)>>
Candidates(displacement, step) ==
    <<displacement,
      VAdd(displacement, <<step, 0, 0>>), VSub(displacement, <<step, 0, 0>>),
      VAdd(displacement, <<0, step, 0>>), VSub(displacement, <<0, step, 0>>),
      VAdd(displacement, <<0, 0, step>>), VSub(displacement, <<0, 0, step>>)>>

\* for _ in range(max_iter)
MoreRounds(t) == t.it < max_iter

\* Lines 74-85.
RoundBegin(t) ==
    [t EXCEPT !.candidates = Candidates(t.displacement, t.step),
              !.best_steps = -1,
              !.best_disp = t.displacement,
              !.ci = 1]

\* if ok: ... break
\* The search that never leaves its loops early.
BreaksNever(ok) == FALSE
Breaks(ok) == ok

\* The bookkeeping that lets a later candidate win a tie.
AfterDryRunLastWins(t, ok, steps) ==
    LET cand == t.candidates[t.ci]
    IN  IF Breaks(ok)
        THEN [t EXCEPT !.ok = ok, !.steps = steps,
                       !.displacement = cand, !.best_disp = cand,
                       !.best_steps = steps]
        ELSE [t EXCEPT !.ok = ok, !.steps = steps,
                       !.best_steps = IF steps >= t.best_steps THEN steps ELSE @,
                       !.best_disp = IF steps >= t.best_steps THEN cand ELSE @,
                       !.ci = @ + 1]
\* Lines 104-111, after the dry run of candidates[ci] returned (ok, steps).
AfterDryRun(t, ok, steps) ==
    LET cand == t.candidates[t.ci]
    IN  IF Breaks(ok)
        THEN [t EXCEPT !.ok = ok, !.steps = steps,
                       !.displacement = cand, !.best_disp = cand,
                       !.best_steps = steps]
        ELSE [t EXCEPT !.ok = ok, !.steps = steps,
                       !.best_steps = IF steps > t.best_steps THEN steps ELSE @,
                       !.best_disp = IF steps > t.best_steps THEN cand ELSE @,
                       !.ci = @ + 1]

\* Lines 112-115: the else of the for.
RoundEnd(t) ==
    [t EXCEPT !.displacement = t.best_disp, !.step = @ \div 2, !.it = @ + 1]

ReplayCall(a, disp, dry_run) ==
    [robot_disp |-> disp, unlimited |-> a.unlimited, dry_run |-> dry_run,
     episode |-> a.episode, target_name |-> a.robot]

\* The simulator of a wrapper just constructed.
FreshSim == [gripper |-> 0, eef |-> Zero3, camera |-> <<>>]

\* ---------------------------------------------------- one task as a whole
\* What the simulator does with a replay, as a function of the displacement:
\* an environment gives every replay its oracle.
IsReached(env, k, n) ==
    CASE env = "free" -> TRUE
      [] OTHER -> k < n                 \* "late": the last step is out of reach
EnvOracle(env, d, disp) ==
    [k \in 1..Len(d.pos) |->
        [reached |-> IsReached(env, k, Len(d.pos)),
         res |-> <<1, 0, 0>>,
         stuck |-> FALSE]]

\* One iteration of the for over candidates, lines 86-111: on to "cand", to
\* "commit", or to "except" when the dry run raised.
DryRunStep(w, x, env) ==
    Only({IF r.raised
          THEN [w EXCEPT !.pc = "except", !.n_dry = @ + 1, !.sim = r.sim, !.fs = r.fs]
          ELSE [w EXCEPT !.pc = IF Breaks(r.result.success) THEN "commit" ELSE "cand",
                         !.t = AfterDryRun(w.t, r.result.success, r.result.steps),
                         !.n_dry = @ + 1, !.sim = r.sim, !.fs = r.fs]
          : r \in {generate_image(ReplayCall(x.a, w.t.candidates[w.t.ci], TRUE), x.d,
                                  x.vps, w.sim, w.fs,
                                  EnvOracle(env, x.d, w.t.candidates[w.t.ci]))}})
\* The for over candidates from candidates[w.t.ci] on, lines 86-115: it ends
\* at "commit", at "except", or at "round" after the else of the for.
RECURSIVE Round(_, _, _)
Round(w, x, env) ==
    IF w.t.ci > Len(w.t.candidates)
    THEN [w EXCEPT !.pc = "round", !.t = RoundEnd(w.t)]
    ELSE Only({IF w1.pc = "cand" THEN Round(w1, x, env) ELSE w1
               : w1 \in {DryRunStep(w, x, env)}})

\* The for over range(max_iter) from round w.t.it on, lines 73-116.
RECURSIVE Search(_, _, _)
Search(w, x, env) ==
    IF MoreRounds(w.t)
    THEN Only({IF w1.pc = "round" THEN Search(w1, x, env) ELSE w1
               : w1 \in {Round([w EXCEPT !.pc = "cand", !.t = RoundBegin(w.t)],
                               x, env)}})
    ELSE [w EXCEPT !.pc = "commit"]

\* The flag of the last dry run, in place of the commit replay's.
ReportedDryRun(t, r) == t.ok
\* return robot, episode, bool(success), line 128; False from the except,
\* line 134, when the commit replay raised.
Reported(t, r) == IF r.raised THEN FALSE ELSE r.result.success

\* The commit replay and the return, lines 118-134.
Commit(w, a, d, vps, env) ==
    Only({[raised |-> FALSE,
           success |-> Reported(w.t, r),
           fs |-> r.fs,
           n_replays |-> w.n_dry + 1]
          : r \in {generate_image(ReplayCall(a, w.t.displacement, FALSE), d, vps, w.sim,
                                  w.fs, EnvOracle(env, d, w.t.displacement))}})

\* generate_one_episode: raised, or the returned success; the files it leaves
\* and the replays it made.
generate_one_episode(a, d, vps, fs, env, fault) ==
    IF PreludeRaises(a.robot, fault)
    THEN [raised |-> TRUE, success |-> FALSE, fs |-> fs, n_replays |-> 0]
    ELSE IF fault = "construct"
    THEN [raised |-> FALSE, success |-> FALSE, fs |-> fs, n_replays |-> 0]
    ELSE Only({IF w.pc = "except"
               THEN [raised |-> FALSE, success |-> FALSE, fs |-> w.fs,
                     n_replays |-> w.n_dry]
               ELSE Commit(w, a, d, vps, env)
               : w \in {Search([pc |-> "round", t |-> SearchInit(a, fs),
                                sim |-> FreshSim, fs |-> fs, n_dry |-> 0],
                               [a |-> a, d |-> d, vps |-> vps], env)}})

\* ------------------------------------------------------------------- main
Elems(seq) == {seq[k] : k \in 1..Len(seq)}

\* core.locked_json on a robot's whitelist.json: the persisted list of the
\* robot, read under the file lock and written back when the block ends.
locked_json(wl, robot) == wl[robot]

\* Lines 171-185: the tasks of one robot, given its whitelist.
\* The enumeration that ignores the whitelist.
TasksForAll(robot, wl, n) ==
    [k \in 1..n |-> [robot |-> robot, ep |-> k - 1]]
TasksFor(robot, wl, n) ==
    LET done_eps == Elems(locked_json(wl, robot))
        todo == {ep \in 0..(n - 1) : ep \notin done_eps}
        RECURSIVE Asc(_)
        Asc(S) == IF S = {} THEN <<>>
                  ELSE LET m == CHOOSE e \in S : \A f \in S : e <= f
                       IN  <<[robot |-> robot, ep |-> m]>> \o Asc(S \ {m})
    IN  Asc(todo)

\* Lines 194-199: what main does to the whitelist with one result.
\* The loop without its "if not ok: continue".
MainResultAlways(wl, robot, ep, ok) == [wl EXCEPT ![robot] = Append(@, ep)]
MainResult(wl, robot, ep, ok) ==
    IF ~ok THEN wl ELSE [wl EXCEPT ![robot] = Append(locked_json(wl, robot), ep)]

\* ------------------------------------------------------------------ state
VARIABLES
    \* shared by the three layers
    data,        \* the loaded episode: pos, grip
    viewpoints,  \* ROBOT_CAMERA_POSES_DICT[robot_dataset]["viewpoints"]
    sim,         \* the simulator of the wrapper: gripper, eef, camera
    files,       \* the files on disk
    \* generate_image, step by step
    r_pc,        \* position in generate_image
    call,        \* its arguments: robot_disp, unlimited, dry_run, episode, target_name
    loc,         \* the locals of generate_image
    result,      \* the returned (success, suggestion, steps)
    files0,      \* history: the files when the call began
    ctrl_log,    \* history: the calls of drive_robot_to_target_pose
    n_cmds,      \* history: the open_close_gripper commands of the current step
    \* generate_one_episode, replay by replay
    t_pc,        \* position in generate_one_episode
    t_args,      \* its arguments: robot, episode, unlimited, load_displacement
    srch,        \* the locals of the search
    t_ret,       \* the returned (robot, episode, success)
    n_dry,       \* history: the dry-run replays made
    n_commit,    \* history: the commit replays made
    last,        \* history: the commit replay: its call and its outcome
    round_log,   \* history: the (ok, steps) of the dry runs of the current round
    \* main
    d_pc,        \* position in main
    args,        \* target_robot, unlimited, load_displacement
    num_eps,     \* dmeta["num_episodes"]
    whitelist,   \* the whitelist.json of every robot: robot -> list of episodes
    robot_i,     \* position of the for over args.target_robot
    tasks,       \* the task list
    futures,     \* the future of every submitted task
    yielded,     \* the futures as_completed has yielded
    run,         \* history: the number of this run of main
    wl0,         \* history: the whitelist when this run began
    run_files0,  \* history: the files when this run began
    appended,    \* history: the tasks whose result main appended, in order
    replays,     \* history: the replays made in this run
    prev_clean,  \* history: the run before ended with every task succeeded
    \* two runs of main on one dataset, whitelist access by whitelist access
    l_pc,        \* position of every run in its locked_json block
    l_lock,      \* the holder of the lock of every whitelist.json, 0 when free
    l_local,     \* the dict a run loaded
    l_todo,      \* the results a run has still to append
    l_acked      \* history: the (robot, episode) whose append block has ended

shared_vars == <<data, viewpoints, sim, files>>
replay_only == <<r_pc, call, loc, result, files0, ctrl_log, n_cmds>>
task_only == <<t_pc, t_args, srch, t_ret, n_dry, n_commit, last, round_log>>
main_only == <<d_pc, args, num_eps, whitelist, robot_i, tasks, futures, yielded,
               run, wl0, run_files0, appended, replays, prev_clean>>
lock_only == <<l_pc, l_lock, l_local, l_todo, l_acked>>
vars == <<shared_vars, replay_only, task_only, main_only, lock_only>>

\* The layers a specification does not run stay as they are.
TaskIdle ==
    /\ t_pc = "idle" /\ t_args = <<>> /\ srch = <<>> /\ t_ret = <<>>
    /\ n_dry = 0 /\ n_commit = 0 /\ last = <<>> /\ round_log = <<>>
ReplayIdle ==
    /\ r_pc = "idle" /\ call = <<>> /\ loc = <<>> /\ result = <<>>
    /\ files0 = {} /\ ctrl_log = <<>> /\ n_cmds = 0
MainIdle ==
    /\ d_pc = "idle" /\ args = <<>> /\ num_eps = 0
    /\ whitelist = <<>> /\ robot_i = 0 /\ tasks = <<>> /\ futures = <<>>
    /\ yielded = {} /\ run = 0 /\ wl0 = <<>> /\ run_files0 = {}
    /\ appended = <<>> /\ replays = 0 /\ prev_clean = FALSE
LockIdle ==
    /\ l_pc = <<>> /\ l_lock = <<>> /\ l_local = <<>> /\ l_todo = <<>>
    /\ l_acked = {}

\* ------------------------------------------------------------ replay inputs
SourcePos(k) == <<8 * k, 0, 4>>
Disps == {Zero3, <<StepInit, 0, 0>>}
Residuals == {<<1, 0, 0>>, <<0, -2, 1>>}
Episodes ==
    UNION {[pos : {[k \in 1..n |-> SourcePos(k)]}, grip : [1..n -> {0, MaxWidth}]]
           : n \in 1..MaxPoses}
ViewpointTables == {<<[episodes |-> {1}], [episodes |-> {0, 2}]>>,
                    <<[episodes |-> {1}]>>}
StaleFiles == {[path |-> VideoPath("Sawyer", 0), body |-> <<7, 7, 7>>],
               [path |-> VideoPath("Sawyer", 1), body |-> <<0>>]}

ReplayInit ==
    /\ r_pc = "call"
    /\ call \in [robot_disp : Disps, unlimited : BOOLEAN, dry_run : BOOLEAN,
                 episode : {0}, target_name : {"Sawyer"}]
    /\ data \in Episodes
    /\ viewpoints \in ViewpointTables
    /\ loc = <<>>
    /\ sim \in [gripper : {0, MaxWidth}, eef : {Zero3}, camera : {<<>>}]
    /\ files \in {{}, StaleFiles}
    /\ result = <<>>
    /\ files0 = files
    /\ ctrl_log = <<>>
    /\ n_cmds = 0
    /\ TaskIdle /\ MainIdle /\ LockIdle

\* ----------------------------------------------------------- replay steps
\* Lines 40-85.
R_Enter ==
    /\ r_pc = "call"
    /\ LET e == Enter(call, data, viewpoints, files)
       IN  /\ r_pc' = IF e.raised THEN "raised" ELSE "loop"
           /\ loc' = e.loc
           /\ files' = e.fs
           /\ sim' = IF e.raised THEN sim ELSE [sim EXCEPT !.camera = e.camera]
    /\ UNCHANGED <<call, data, viewpoints, result, files0, ctrl_log, n_cmds>>
    /\ UNCHANGED <<task_only, main_only, lock_only>>

\* for pose_index in range(num_robot_poses): lines 86-91, or the loop's end.
R_Loop ==
    /\ r_pc = "loop"
    /\ IF loc.pose_index < loc.num_robot_poses
       THEN /\ loc' = StepBegin(loc, call, sim.gripper)
            /\ r_pc' = "match"
       ELSE /\ loc' = loc
            /\ r_pc' = "post"
    /\ n_cmds' = 0
    /\ UNCHANGED <<call, data, viewpoints, sim, files, result, files0, ctrl_log>>
    /\ UNCHANGED <<task_only, main_only, lock_only>>

\* One iteration of the matching loop, lines 92-98.
R_Gripper ==
    /\ r_pc = "match"
    /\ MatchCond(loc.gripper_dist, loc.gripper_array[loc.pose_index + 1], loc.attempt)
    /\ \E g \in GripperAfter(sim.gripper,
                             GripperOpen(loc.gripper_dist,
                                         loc.gripper_array[loc.pose_index + 1])) :
          /\ sim' = [sim EXCEPT !.gripper = g]
          /\ loc' = [loc EXCEPT !.gripper_dist = g, !.attempt = @ + 1]
    /\ n_cmds' = n_cmds + 1
    /\ UNCHANGED <<r_pc, call, data, viewpoints, files, result, files0, ctrl_log>>
    /\ UNCHANGED <<task_only, main_only, lock_only>>

\* drive_robot_to_target_pose and the rest of the iteration, lines 101-165.
R_Drive ==
    /\ r_pc = "match"
    /\ ~MatchCond(loc.gripper_dist, loc.gripper_array[loc.pose_index + 1], loc.attempt)
    /\ \E target_reached \in BOOLEAN, res \in Residuals :
          LET pose == IF target_reached THEN loc.target_pose
                      ELSE VAdd(loc.target_pose, res)
              a == AfterDrive(loc, call, target_reached, pose, sim.gripper)
          IN  /\ sim' = [sim EXCEPT !.eef = pose]
              /\ loc' = a.loc
              /\ r_pc' = IF a.brk THEN "post" ELSE "loop"
              /\ ctrl_log' = Append(ctrl_log,
                                    [step |-> loc.pose_index,
                                     target |-> loc.target_pose,
                                     reached |-> target_reached,
                                     pose |-> pose,
                                     cmds |-> n_cmds,
                                     matched |-> ~OutOfTolerance(
                                         loc.gripper_dist,
                                         loc.gripper_array[loc.pose_index + 1])])
    /\ UNCHANGED <<call, data, viewpoints, files, result, files0, n_cmds>>
    /\ UNCHANGED <<task_only, main_only, lock_only>>

\* Lines 167-181.
R_Encode ==
    /\ r_pc = "post"
    /\ LET e == Encode(loc, call, files)
       IN  /\ files' = e.fs
           /\ r_pc' = IF e.raised THEN "raised" ELSE "ret"
    /\ UNCHANGED <<call, data, viewpoints, loc, sim, result, files0, ctrl_log, n_cmds>>
    /\ UNCHANGED <<task_only, main_only, lock_only>>

\* Lines 183-243.
R_Return ==
    /\ r_pc = "ret"
    /\ LET r == Return(loc, call, files)
       IN  /\ files' = r.fs
           /\ result' = r.result
    /\ r_pc' = "returned"
    /\ UNCHANGED <<call, data, viewpoints, loc, sim, files0, ctrl_log, n_cmds>>
    /\ UNCHANGED <<task_only, main_only, lock_only>>

ReplayNext == R_Enter \/ R_Loop \/ R_Gripper \/ R_Drive \/ R_Encode \/ R_Return

SpecReplay == ReplayInit /\ [][ReplayNext]_vars

\* ------------------------------------------------------------ task inputs
StoredDisp == <<-16, 8, 0>>
DataOf(episode) ==
    [pos |-> [k \in 1..MaxPoses |-> SourcePos(k)],
     grip |-> [k \in 1..MaxPoses |-> IF k % 2 = 1 THEN MaxWidth ELSE 0]]
\* What the simulator may do in one replay: reach the first m steps.
Oracles(n) ==
    {[k \in 1..n |-> [reached |-> k <= m, res |-> <<1, 0, 0>>, stuck |-> FALSE]]
     : m \in 0..n}

TaskInit ==
    /\ t_pc = "start"
    /\ t_args \in [robot : {"Sawyer", "Baxter"}, episode : {0},
                   unlimited : BOOLEAN, load_displacement : BOOLEAN]
    /\ data = DataOf(0)
    /\ viewpoints \in ViewpointTables
    /\ sim = FreshSim
    \* the offsets file is read only under load_displacement
    /\ files \in {{}, {[path |-> OffsetsPath("Sawyer", 0), body |-> StoredDisp]}}
    /\ files # {} => t_args.load_displacement
    /\ srch = <<>> /\ t_ret = <<>> /\ n_dry = 0 /\ n_commit = 0 /\ last = <<>>
    /\ round_log = <<>>
    /\ ReplayIdle /\ MainIdle /\ LockIdle

\* ------------------------------------------------------------- task steps
\* Lines 40-44: pick_best_gpu, the import, select_gripper.
T_Prelude ==
    /\ t_pc = "start"
    /\ \E fault \in {"none", "prelude"} :
          t_pc' = IF PreludeRaises(t_args.robot, fault) THEN "raised" ELSE "try"
    /\ UNCHANGED <<round_log, t_args, srch, t_ret, n_dry, n_commit, last>>
    /\ UNCHANGED <<shared_vars, replay_only, main_only, lock_only>>

\* Lines 45-72: the wrapper, the initial displacement.
T_Setup ==
    /\ t_pc = "try"
    /\ \E fault \in {"none", "construct"} :
          IF fault = "construct"
          THEN /\ t_pc' = "returned"
               /\ t_ret' = <<t_args.robot, t_args.episode, FALSE>>
               /\ srch' = srch
          ELSE /\ t_pc' = "round"
               /\ t_ret' = t_ret
               /\ srch' = SearchInit(t_args, files)
    /\ UNCHANGED <<round_log, t_args, n_dry, n_commit, last>>
    /\ UNCHANGED <<shared_vars, replay_only, main_only, lock_only>>

\* The head of the for over range(max_iter), lines 73-85.
T_Round ==
    /\ t_pc = "round"
    /\ IF MoreRounds(srch)
       THEN srch' = RoundBegin(srch) /\ t_pc' = "cand"
       ELSE srch' = srch /\ t_pc' = "commit"
    /\ UNCHANGED <<round_log, t_args, t_ret, n_dry, n_commit, last>>
    /\ UNCHANGED <<shared_vars, replay_only, main_only, lock_only>>

\* One iteration of the for over candidates, lines 86-111.
T_DryRun ==
    /\ t_pc = "cand"
    /\ srch.ci <= Len(srch.candidates)
    /\ \E oracle \in Oracles(Len(data.pos)) :
       \E r \in {generate_image(ReplayCall(t_args, srch.candidates[srch.ci], TRUE),
                                data, viewpoints, sim, files, oracle)} :
              /\ sim' = r.sim
              /\ files' = r.fs
              /\ IF r.raised
                 THEN /\ t_pc' = "returned"
                      /\ t_ret' = <<t_args.robot, t_args.episode, FALSE>>
                      /\ srch' = srch
                 ELSE /\ t_pc' = IF Breaks(r.result.success) THEN "commit" ELSE "cand"
                      /\ t_ret' = t_ret
                      /\ srch' = AfterDryRun(srch, r.result.success, r.result.steps)
    /\ n_dry' = n_dry + 1
    /\ UNCHANGED <<round_log, t_args, n_commit, last, data, viewpoints>>
    /\ UNCHANGED <<replay_only, main_only, lock_only>>

\* The else of the for over candidates, lines 112-115.
T_RoundEnd ==
    /\ t_pc = "cand"
    /\ srch.ci > Len(srch.candidates)
    /\ srch' = RoundEnd(srch)
    /\ t_pc' = "round"
    /\ UNCHANGED <<round_log, t_args, t_ret, n_dry, n_commit, last>>
    /\ UNCHANGED <<shared_vars, replay_only, main_only, lock_only>>

\* The commit replay and the return, lines 118-134.
T_Commit ==
    /\ t_pc = "commit"
    /\ \E oracle \in Oracles(Len(data.pos)) :
       \E r \in {generate_image(ReplayCall(t_args, srch.displacement, FALSE),
                                data, viewpoints, sim, files, oracle)} :
              /\ sim' = r.sim
              /\ files' = r.fs
              /\ last' = [call |-> ReplayCall(t_args, srch.displacement, FALSE),
                          raised |-> r.raised, result |-> r.result]
              /\ t_ret' = <<t_args.robot, t_args.episode, Reported(srch, r)>>
    /\ t_pc' = "returned"
    /\ n_commit' = n_commit + 1
    /\ UNCHANGED <<round_log, t_args, srch, n_dry, data, viewpoints>>
    /\ UNCHANGED <<replay_only, main_only, lock_only>>

TaskNext == T_Prelude \/ T_Setup \/ T_Round \/ T_DryRun \/ T_RoundEnd \/ T_Commit

SpecTask == TaskInit /\ [][TaskNext]_vars
\* A worker runs its task to the end: nothing else is scheduled in it.
SpecTaskFair == SpecTask /\ WF_vars(TaskNext)

\* ------------------------------------------------------ the search alone
\* The search of lines 71-116 with every dry run reduced to the (ok, steps) it
\* returns: a failed dry run of an episode of MaxPoses steps returns fewer
\* than MaxPoses steps, a successful one MaxPoses.  The outcomes of the first
\* MaxFreeRounds rounds are arbitrary; later rounds fail at step 0.
MaxFreeRounds == 2
DryRunOutcomes(it) ==
    IF it < MaxFreeRounds
    THEN [ok : {FALSE}, steps : 0..(MaxPoses - 1)] \cup {[ok |-> TRUE, steps |-> MaxPoses]}
    ELSE {[ok |-> FALSE, steps |-> 0]}

SearchOnlyInit ==
    /\ t_pc = "round"
    /\ t_args \in [robot : {"Sawyer"}, episode : {0},
                   unlimited : {FALSE}, load_displacement : BOOLEAN]
    /\ files \in {{}, {[path |-> OffsetsPath("Sawyer", 0), body |-> StoredDisp]}}
    /\ srch = SearchInit(t_args, files)
    /\ data = DataOf(0)
    /\ viewpoints = <<>>
    /\ sim = FreshSim
    /\ t_ret = <<>> /\ n_dry = 0 /\ n_commit = 0 /\ last = <<>>
    /\ round_log = <<>>
    /\ ReplayIdle /\ MainIdle /\ LockIdle

\* The head of the for over range(max_iter), lines 73-85.
G_Round ==
    /\ t_pc = "round"
    /\ IF MoreRounds(srch)
       THEN srch' = RoundBegin(srch) /\ t_pc' = "cand" /\ round_log' = <<>>
       ELSE srch' = srch /\ t_pc' = "commit" /\ round_log' = round_log
    /\ UNCHANGED <<t_args, t_ret, n_dry, n_commit, last>>
    /\ UNCHANGED <<shared_vars, replay_only, main_only, lock_only>>

\* One iteration of the for over candidates, lines 86-111.
G_DryRun ==
    /\ t_pc = "cand"
    /\ srch.ci <= Len(srch.candidates)
    /\ \E o \in DryRunOutcomes(srch.it) :
          /\ srch' = AfterDryRun(srch, o.ok, o.steps)
          /\ round_log' = Append(round_log, o)
          /\ t_pc' = IF Breaks(o.ok) THEN "commit" ELSE "cand"
    /\ n_dry' = n_dry + 1
    /\ UNCHANGED <<t_args, t_ret, n_commit, last>>
    /\ UNCHANGED <<shared_vars, replay_only, main_only, lock_only>>

\* The else of the for over candidates, lines 112-115.
G_RoundEnd ==
    /\ t_pc = "cand"
    /\ srch.ci > Len(srch.candidates)
    /\ srch' = RoundEnd(srch)
    /\ t_pc' = "round"
    /\ UNCHANGED <<round_log, t_args, t_ret, n_dry, n_commit, last>>
    /\ UNCHANGED <<shared_vars, replay_only, main_only, lock_only>>

SearchNext == G_Round \/ G_DryRun \/ G_RoundEnd

SpecSearch == SearchOnlyInit /\ [][SearchNext]_vars

\* ------------------------------------------------------------ main inputs
MaxEpisodes == 2    \* largest num_episodes
MaxRuns == 2        \* runs of main, one after the other
MaxTasks == 4       \* most pairs of a requested robot and an episode
Robots == {"Sawyer", "Panda", "Baxter"}
Envs == {"free", "late"}
ArgSets ==
    [target_robot : {<<"Sawyer">>, <<"Sawyer", "Panda">>, <<"Panda", "Baxter">>,
                     <<"Sawyer", "Sawyer">>},
     unlimited : {FALSE},
     load_displacement : {FALSE}]
    \cup
    [target_robot : {<<"Panda">>}, unlimited : {TRUE}, load_displacement : {TRUE}]
\* The whitelists earlier runs may have left.
Whitelists ==
    {wl \in [Robots -> {<<>>, <<0>>}] : wl["Baxter"] = <<>>}
Indices == 1..Len(tasks)
TaskArgs(i) ==
    [robot |-> tasks[i].robot, episode |-> tasks[i].ep,
     unlimited |-> args.unlimited, load_displacement |-> args.load_displacement]

MainInit ==
    /\ files = {}
    /\ d_pc = "enumerate"
    /\ args \in ArgSets
    /\ num_eps \in 1..MaxEpisodes
    /\ Len(args.target_robot) * num_eps <= MaxTasks
    /\ whitelist \in Whitelists
    /\ \A r \in Robots : Elems(whitelist[r]) \subseteq 0..(num_eps - 1)
    /\ robot_i = 1
    /\ tasks = <<>> /\ futures = <<>> /\ yielded = {}
    /\ run = 1 /\ wl0 = whitelist /\ run_files0 = files
    /\ appended = <<>> /\ replays = 0 /\ prev_clean = FALSE
    /\ data = DataOf(0)
    /\ viewpoints \in ViewpointTables
    /\ sim = FreshSim
    /\ ReplayIdle /\ TaskIdle /\ LockIdle

\* -------------------------------------------------------------- main steps
\* One iteration of the for over args.target_robot, lines 167-185.
D_Enumerate ==
    /\ d_pc = "enumerate"
    /\ robot_i <= Len(args.target_robot)
    /\ tasks' = tasks \o TasksFor(args.target_robot[robot_i], whitelist, num_eps)
    /\ robot_i' = robot_i + 1
    /\ UNCHANGED <<d_pc, args, num_eps, whitelist, futures, yielded, run, wl0,
                   run_files0, appended, replays, prev_clean>>
    /\ UNCHANGED <<shared_vars, replay_only, task_only, lock_only>>

\* if not tasks: return, lines 187-189.
D_NothingToDo ==
    /\ d_pc = "enumerate"
    /\ robot_i > Len(args.target_robot)
    /\ tasks = <<>>
    /\ d_pc' = "done"
    /\ UNCHANGED <<args, num_eps, whitelist, robot_i, tasks, futures, yielded, run,
                   wl0, run_files0, appended, replays, prev_clean>>
    /\ UNCHANGED <<shared_vars, replay_only, task_only, lock_only>>

\* pool.submit of every task, line 192.
D_Submit ==
    /\ d_pc = "enumerate"
    /\ robot_i > Len(args.target_robot)
    /\ tasks # <<>>
    /\ futures' = [i \in 1..Len(tasks) |-> "pending"]
    /\ d_pc' = "pool"
    /\ UNCHANGED <<args, num_eps, whitelist, robot_i, tasks, yielded, run, wl0,
                   run_files0, appended, replays, prev_clean>>
    /\ UNCHANGED <<shared_vars, replay_only, task_only, lock_only>>

\* A worker runs generate_one_episode on task i, in a simulator of its own.
\* The pool keeps running the submitted tasks after main left the result loop
\* on an exception: the with block waits for them.
W_Run(i) ==
    /\ d_pc \in {"pool", "crashed"}
    /\ futures[i] = "pending"
    /\ \E env \in Envs :
       \E out \in {generate_one_episode(TaskArgs(i), DataOf(tasks[i].ep), viewpoints,
                                        files, env, "none")} :
          /\ futures' = [futures EXCEPT ![i] = IF out.raised THEN "raised"
                                               ELSE IF out.success THEN "ok"
                                               ELSE "failed"]
          /\ files' = out.fs
          /\ replays' = IF out.n_replays > 0 THEN 1 ELSE replays
    /\ UNCHANGED <<d_pc, args, num_eps, whitelist, robot_i, tasks, yielded, run, wl0,
                   run_files0, appended, prev_clean>>
    /\ UNCHANGED <<data, viewpoints, sim, replay_only, task_only, lock_only>>

\* One iteration of the for over as_completed(futures), lines 193-199:
\* fut.result() raises what the task raised.
D_Result(i) ==
    /\ d_pc = "pool"
    /\ i \notin yielded
    /\ futures[i] # "pending"
    /\ yielded' = yielded \cup {i}
    /\ IF futures[i] = "raised"
       THEN /\ d_pc' = "crashed"
            /\ whitelist' = whitelist
       ELSE /\ d_pc' = d_pc
            /\ whitelist' = MainResult(whitelist, tasks[i].robot, tasks[i].ep,
                                       futures[i] = "ok")
    /\ appended' = IF whitelist' # whitelist THEN Append(appended, i) ELSE appended
    /\ UNCHANGED <<args, num_eps, robot_i, tasks, futures, run, wl0, run_files0,
                   replays, prev_clean>>
    /\ UNCHANGED <<shared_vars, replay_only, task_only, lock_only>>

\* The end of the with block, lines 199-201.
D_PoolExit ==
    /\ d_pc = "pool"
    /\ yielded = Indices
    /\ d_pc' = "done"
    /\ UNCHANGED <<args, num_eps, whitelist, robot_i, tasks, futures, yielded, run,
                   wl0, run_files0, appended, replays, prev_clean>>
    /\ UNCHANGED <<shared_vars, replay_only, task_only, lock_only>>

\* main is run again with the same arguments, once the run before is over.
D_Rerun ==
    /\ d_pc \in {"done", "crashed"}
    /\ \A i \in 1..Len(futures) : futures[i] # "pending"
    /\ run < MaxRuns
    /\ run' = run + 1
    /\ prev_clean' = (d_pc = "done" /\ \A i \in 1..Len(futures) : futures[i] = "ok")
    /\ d_pc' = "enumerate"
    /\ robot_i' = 1
    /\ tasks' = <<>> /\ futures' = <<>> /\ yielded' = {}
    /\ wl0' = whitelist /\ run_files0' = files
    /\ appended' = <<>> /\ replays' = 0
    /\ UNCHANGED <<args, num_eps, whitelist>>
    /\ UNCHANGED <<shared_vars, replay_only, task_only, lock_only>>

Next ==
    \/ D_Enumerate \/ D_NothingToDo \/ D_Submit
    \/ \E i \in Indices : W_Run(i)
    \/ \E i \in Indices : D_Result(i)
    \/ D_PoolExit \/ D_Rerun

Spec == MainInit /\ [][Next]_vars

\* --------------------------------------------------- two runs, one dataset
\* Two runs of main over the same dataset, each reduced to its accesses to the
\* whitelist of its robot: the read of lines 168-171, then one append per
\* task that succeeded, lines 197-199.  Every access is a locked_json block:
\* the lock is taken, the dict is loaded, the body runs, the dict is written
\* back, the lock is released.
Procs == {1, 2}
\* The orders in which some of the episodes S may succeed.
Orders(S) ==
    {q \in UNION {[1..n -> S] : n \in 0..Cardinality(S)} :
        \A i, j \in 1..Len(q) : q[i] = q[j] => i = j}
ReadOf(robot) == [kind |-> "read", robot |-> robot, ep |-> 0]
AppendsOf(robot, q) == [k \in 1..Len(q) |-> [kind |-> "append", robot |-> robot, ep |-> q[k]]]
\* The lock of a whitelist.json can be taken when nobody holds it.
LockTakenAnyway(lock, robot) == TRUE
LockFree(lock, robot) == lock[robot] = 0

LockInit ==
    /\ whitelist \in Whitelists
    /\ l_pc = [p \in Procs |-> "out"]
    /\ l_lock = [r \in Robots |-> 0]
    /\ l_local = [p \in Procs |-> <<>>]
    /\ l_todo \in [Procs -> {<<ReadOf(r)>> : r \in {"Sawyer", "Panda"}}]
    /\ l_acked = {}
    /\ d_pc = "idle" /\ args = <<>> /\ num_eps = MaxEpisodes
    /\ robot_i = 0 /\ tasks = <<>> /\ futures = <<>>
    /\ yielded = {} /\ run = 0 /\ wl0 = whitelist /\ run_files0 = {}
    /\ appended = <<>> /\ replays = 0 /\ prev_clean = FALSE
    /\ data = <<>> /\ viewpoints = <<>> /\ sim = <<>> /\ files = {}
    /\ ReplayIdle /\ TaskIdle

\* with locked_json(wl_path) as wl: the lock.
L_Acquire(p) ==
    /\ l_pc[p] = "out"
    /\ l_todo[p] # <<>>
    /\ LockFree(l_lock, Head(l_todo[p]).robot)
    /\ l_lock' = [l_lock EXCEPT ![Head(l_todo[p]).robot] = p]
    /\ l_pc' = [l_pc EXCEPT ![p] = "held"]
    /\ UNCHANGED <<l_local, l_todo, l_acked>>
    /\ UNCHANGED <<shared_vars, replay_only, task_only, main_only>>

\* with locked_json(wl_path) as wl: the dict of the file.
L_Load(p) ==
    /\ l_pc[p] = "held"
    /\ l_local' = [l_local EXCEPT ![p] = whitelist]
    /\ l_pc' = [l_pc EXCEPT ![p] = "loaded"]
    /\ UNCHANGED <<l_lock, l_todo, l_acked>>
    /\ UNCHANGED <<shared_vars, replay_only, task_only, main_only>>

\* The body of the block: done_eps = set(wl.get(robot, [])), line 170, after
\* which the run learns which of the missing episodes succeed; or
\* wl.setdefault(robot, []).append(ep), line 199.
L_Body(p) ==
    /\ l_pc[p] = "loaded"
    /\ LET a == Head(l_todo[p])
       IN  IF a.kind = "read"
           THEN /\ \E q \in Orders((0..(num_eps - 1))
                                    \ Elems(locked_json(l_local[p], a.robot))) :
                      l_todo' = [l_todo EXCEPT ![p] = <<a>> \o AppendsOf(a.robot, q)]
                /\ l_local' = l_local
           ELSE /\ l_local' = [l_local EXCEPT
                                 ![p] = MainResult(l_local[p], a.robot, a.ep, TRUE)]
                /\ l_todo' = l_todo
    /\ l_pc' = [l_pc EXCEPT ![p] = "body"]
    /\ UNCHANGED <<l_lock, l_acked>>
    /\ UNCHANGED <<shared_vars, replay_only, task_only, main_only>>

\* The end of the block: the dict is written back to the file.
L_Store(p) ==
    /\ l_pc[p] = "body"
    /\ whitelist' = [whitelist EXCEPT ![Head(l_todo[p]).robot] =
                                         l_local[p][Head(l_todo[p]).robot]]
    /\ l_pc' = [l_pc EXCEPT ![p] = "stored"]
    /\ UNCHANGED <<l_lock, l_local, l_todo, l_acked>>
    /\ UNCHANGED <<d_pc, args, num_eps, robot_i, tasks, futures, yielded, run, wl0,
                   run_files0, appended, replays, prev_clean>>
    /\ UNCHANGED <<shared_vars, replay_only, task_only>>

\* The end of the block: the lock is released.
L_Release(p) ==
    /\ l_pc[p] = "stored"
    /\ LET a == Head(l_todo[p])
       IN  /\ l_lock' = [l_lock EXCEPT ![a.robot] = 0]
           /\ l_acked' = IF a.kind = "append"
                         THEN l_acked \cup {[robot |-> a.robot, ep |-> a.ep]}
                         ELSE l_acked
    /\ l_todo' = [l_todo EXCEPT ![p] = Tail(@)]
    /\ l_pc' = [l_pc EXCEPT ![p] = "out"]
    /\ UNCHANGED l_local
    /\ UNCHANGED <<shared_vars, replay_only, task_only, main_only>>

LockNext ==
    \/ \E p \in Procs : L_Acquire(p)
    \/ \E p \in Procs : L_Load(p)
    \/ \E p \in Procs : L_Body(p)
    \/ \E p \in Procs : L_Store(p)
    \/ \E p \in Procs : L_Release(p)

SpecLock == LockInit /\ [][LockNext]_vars

\* ------------------------------------------------------ claims on the replay
ReplayOver == r_pc \in {"returned", "raised"}
HasLocals == r_pc \in {"loop", "match", "post", "ret", "returned"}
Misses == {k \in 1..Len(ctrl_log) : ~ctrl_log[k].reached}
FirstMiss == CHOOSE k \in Misses : \A j \in Misses : k <= j
AllReached == Len(ctrl_log) = Len(data.pos) /\ Misses = {}
StepSeq(n) == [k \in 1..n |-> k - 1]
NotDirs(fs) == {f \in fs : f.path[1] # "dir"}

\* C3: a non-dry-run replay that returns success=false has written none of the
\* RGB video, the mask video and the state archive of its episode.
C3_FailureLeavesNoArtifact ==
    (r_pc = "returned" /\ ~call.dry_run /\ ~result.success)
        => Artifacts(files, call.target_name, call.episode)
             = Artifacts(files0, call.target_name, call.episode)

\* C5: with unlimited=false, when step k is the first the controller reports
\* unreached, the controller is called for no later step, and the replay
\* returns success=false, steps_completed = k and the residual of step k.
C5_EarlyAbort ==
    (ReplayOver /\ ~call.unlimited /\ Misses # {})
        => /\ Len(ctrl_log) = FirstMiss
           /\ r_pc = "returned"
           /\ result.success = FALSE
           /\ result.steps = ctrl_log[FirstMiss].step
           /\ result.steps = FirstMiss - 1
           /\ result.suggestion
                = VSub(ctrl_log[FirstMiss].pose, ctrl_log[FirstMiss].target)

\* C8: every step issues at most 10 gripper commands; once the matching loop
\* has ended, converged or not, the next thing done is the controller call of
\* that step; a replay fails only on an unreached report of the controller.
C8_CmdsBounded ==
    /\ n_cmds <= MaxAttempts
    /\ \A k \in 1..Len(ctrl_log) : ctrl_log[k].cmds <= MaxAttempts
    /\ (r_pc = "returned" /\ ~result.success) => ~ctrl_log[Len(ctrl_log)].reached
C8_ThenDrive ==
    (r_pc = "match"
       /\ ~MatchCond(loc.gripper_dist, loc.gripper_array[loc.pose_index + 1], loc.attempt))
        => /\ Len(ctrl_log') = Len(ctrl_log) + 1
           /\ ctrl_log'[Len(ctrl_log')].step = loc.pose_index
           /\ ctrl_log'[Len(ctrl_log')].cmds = n_cmds
C8_GripperMatchingBound == []C8_CmdsBounded /\ [][C8_ThenDrive]_vars
C8_Witness ==
    /\ r_pc = "returned" /\ result.success
    /\ \E k \in 1..Len(ctrl_log) :
          ctrl_log[k].cmds = MaxAttempts /\ ~ctrl_log[k].matched

\* C9: during and after a replay with dry_run=true the files on disk are those
\* at the start of the call, and no frame is buffered.
C9_DryRunNoSideEffect ==
    call.dry_run
        => /\ files = files0
           /\ HasLocals => (loc.mask_frames = <<>> /\ loc.video_frames = <<>>)
C9_Witness ==
    r_pc = "returned" /\ call.dry_run /\ result.success /\ result.steps >= 2

\* C10: with unlimited=false and every step reported reached, the replay
\* returns (true, zero, N); when not a dry run the two videos hold the N
\* frames in step order, the archive holds N poses, N joint records, N
\* widths and the displacement, and nothing else was written.
C10_FullReplay ==
    (ReplayOver /\ ~call.unlimited /\ AllReached)
        => LET n == Len(data.pos)
               name == call.target_name
               ep == call.episode
           IN  /\ r_pc = "returned"
               /\ result = [success |-> TRUE, suggestion |-> Zero3, steps |-> n]
               /\ ~call.dry_run =>
                    /\ [path |-> MaskPath(name, ep), body |-> StepSeq(n)] \in files
                    /\ [path |-> VideoPath(name, ep), body |-> StepSeq(n)] \in files
                    /\ \E f \in files :
                          /\ f.path = StatePath(name, ep)
                          /\ Len(f.body.target_pose) = n
                          /\ Len(f.body.joint_angles) = n
                          /\ Len(f.body.gripper_width) = n
                          /\ f.body.offsets = call.robot_disp
                          /\ \A k \in 1..n :
                                f.body.target_pose[k]
                                  = VAdd(ctrl_log[k].pose, call.robot_disp)
                    /\ Cardinality(Artifacts(files, name, ep)) = 3
                    /\ NotDirs(files) \ Artifacts(files, name, ep)
                         = NotDirs(files0) \ Artifacts(files0, name, ep)
C10_Witness ==
    /\ r_pc = "returned" /\ ~call.unlimited /\ ~call.dry_run /\ AllReached
    /\ Len(data.pos) >= 2

\* C13: a replay with dry_run=false and unlimited=false whose first step the
\* controller reports unreached raises nothing: it returns success=false,
\* the residual of step 0 and steps_completed=0, as the dry run does, and it
\* writes no video.
C13_EmptyEncodeSkipped ==
    (ReplayOver /\ ~call.dry_run /\ ~call.unlimited
       /\ ctrl_log # <<>> /\ ~ctrl_log[1].reached)
        => /\ r_pc = "returned"
           /\ result = [success |-> FALSE,
                        suggestion |-> VSub(ctrl_log[1].pose, ctrl_log[1].target),
                        steps |-> 0]
           /\ Artifacts(files, call.target_name, call.episode)
                = Artifacts(files0, call.target_name, call.episode)

\* C16: with unlimited=true and a viewpoint for the episode, the replay never
\* aborts on an unreached report: it calls the controller for each of the N
\* steps in order, records each, and returns (true, zero, N).
C16_UnlimitedNeverAborts ==
    /\ (call.unlimited /\ HasLocals) =>
          /\ loc.success /\ loc.suggestion = Zero3
          /\ Len(loc.target_pose_list) = Len(ctrl_log)
          /\ Len(loc.joint_angles_list) = Len(ctrl_log)
          /\ Len(loc.gripper_width_list) = Len(ctrl_log)
    /\ (ReplayOver /\ call.unlimited
          /\ FirstViewpoint(viewpoints, call.episode, 1) # 0) =>
          /\ r_pc = "returned"
          /\ Len(ctrl_log) = Len(data.pos)
          /\ \A k \in 1..Len(ctrl_log) : ctrl_log[k].step = k - 1
          /\ result = [success |-> TRUE, suggestion |-> Zero3,
                       steps |-> Len(data.pos)]
C16_Witness ==
    /\ r_pc = "returned" /\ call.unlimited /\ Len(data.pos) >= 2
    /\ \A k \in 1..Len(ctrl_log) : ~ctrl_log[k].reached

\* C18: a replay leaves the displacement it was given and the source pose
\* sequence unchanged: in every state of a replay, and after it returned or
\* raised, robot_disp holds the value of the call and target_pose_array the
\* recorded poses, and no step changes the caller's arguments or the episode.
C18_State ==
    loc # <<>> => /\ loc.robot_disp = call.robot_disp
                  /\ loc.target_pose_array = data.pos
C18_Frame == call' = call /\ data' = data
C18_InputsUnchanged == []C18_State /\ [][C18_Frame]_vars
C18_Witness ==
    /\ r_pc = "returned" /\ ~call.dry_run /\ result.success
    /\ call.robot_disp # Zero3 /\ Len(ctrl_log) >= 2
    /\ loc.robot_disp = call.robot_disp
    /\ loc.target_pose_array = data.pos
    /\ \A k \in 1..Len(ctrl_log) :
          ctrl_log[k].target # loc.target_pose_array[k]

\* ------------------------------------------------------- claims on the task
TaskOver == t_pc \in {"returned", "raised"}
Searching == t_pc \in {"round", "cand"}
\* What is left to do, at most: it decreases with every step of the task.
TaskRank ==
    CASE t_pc = "start" -> 4 + max_iter * 9
      [] t_pc = "try" -> 3 + max_iter * 9
      [] t_pc = "round" -> 2 + (max_iter - srch.it) * 9
      [] t_pc = "cand" -> 2 + (max_iter - srch.it) * 9 - srch.ci
      [] t_pc = "commit" -> 1
      [] OTHER -> 0

\* The guards of the steps of the task: one of them holds.
TaskCanStep ==
    \/ t_pc \in {"start", "try", "round", "commit"}
    \/ t_pc = "cand" /\ srch.ci <= Len(srch.candidates) /\ Oracles(Len(data.pos)) # {}
    \/ t_pc = "cand" /\ srch.ci > Len(srch.candidates)

\* C6: the search makes at most 5 rounds of at most 7 dry runs, 35 in all; a
\* dry run that returns success is the last one, of its round and of the
\* task; and the task runs to its end, every step bringing it closer.
C6_Bounds ==
    /\ n_dry <= max_iter * 7
    /\ Searching => /\ srch.it <= max_iter
                    /\ n_dry <= srch.it * 7 + (srch.ci - 1)
                    /\ t_pc = "cand" => srch.it < max_iter /\ srch.ci <= 8
    /\ TaskRank >= 0
    /\ TaskOver \/ TaskCanStep
C6_StopOnSuccess ==
    /\ (t_pc \in {"cand", "round", "commit"} /\ srch.ok) => n_dry' = n_dry
    /\ (t_pc = "cand" /\ srch'.ok) => t_pc' = "commit" /\ srch'.it = srch.it
    /\ TaskRank' < TaskRank
C6_SearchTerminates == []C6_Bounds /\ [][C6_StopOnSuccess]_vars
C6_Witness ==
    /\ t_pc = "returned" /\ n_commit = 1 /\ srch.ok
    /\ srch.it = 2 /\ srch.ci = 3 /\ n_dry = 17

\* No error was raised in the task: the wrapper was constructed, a viewpoint
\* holds the episode, and the commit replay, if made, returned.
NoError ==
    /\ t_pc = "returned" /\ srch # <<>>
    /\ FirstViewpoint(viewpoints, t_args.episode, 1) # 0
    /\ last # <<>> => ~last.raised

\* C15: a task in which no error is raised makes exactly one commit replay;
\* no dry run follows it; it is made at the displacement the search adopted,
\* the candidate whose dry run succeeded or, after 5 failed rounds, the
\* current displacement; and the task returns the success of that replay.
C15_State ==
    /\ n_commit <= 1
    /\ n_commit = 1 =>
          /\ ~last.call.dry_run
          /\ last.call.robot_disp = srch.displacement
          /\ srch.ok => srch.displacement = srch.candidates[srch.ci]
          /\ ~srch.ok => srch.it = max_iter /\ srch.displacement = srch.best_disp
    /\ NoError =>
          /\ n_commit = 1
          /\ t_ret = <<t_args.robot, t_args.episode, last.result.success>>
C15_Order ==
    /\ n_commit = 1 => n_dry' = n_dry /\ n_commit' = n_commit
    /\ n_commit' # n_commit => t_pc = "commit" /\ t_pc' = "returned"
C15_OneCommitReplay == []C15_State /\ [][C15_Order]_vars
C15_Witness ==
    /\ NoError /\ n_commit = 1 /\ n_dry = max_iter * 7
    /\ ~srch.ok /\ t_ret[3] = TRUE

NoViewpoint ==
    \A i \in 1..Len(viewpoints) : t_args.episode \notin viewpoints[i].episodes

\* C17: when no viewpoint holds the episode, a task whose wrapper was
\* constructed makes one replay, a dry run that raises with the simulator
\* untouched; it tries no other candidate and makes no commit replay, writes
\* no file, and returns (robot, episode, false), which main appends to no
\* whitelist.
C17_NoViewpointFatal ==
    (NoViewpoint /\ srch # <<>>) =>
        /\ n_dry <= 1 /\ n_commit = 0
        /\ n_dry = 1 => t_pc = "returned"
        /\ t_pc \notin {"commit", "raised"}
        /\ sim = FreshSim
        /\ \A f \in files : f.path = OffsetsPath(t_args.robot, t_args.episode)
        /\ t_pc = "returned" =>
              /\ n_dry = 1
              /\ t_ret = <<t_args.robot, t_args.episode, FALSE>>
              /\ \A wl \in Whitelists :
                    MainResult(wl, t_ret[1], t_ret[2], t_ret[3]) = wl
C17_Witness ==
    /\ NoViewpoint /\ srch # <<>> /\ t_pc = "returned" /\ n_dry = 1
    /\ srch.candidates # <<>> /\ srch.ci = 1

\* C19: every replay of a task starts from the same simulator state: when a
\* dry run or the commit replay is about to be called, the arm and the gripper
\* of the wrapper are as they were when the wrapper was constructed.
ReplayDue ==
    \/ t_pc = "commit"
    \/ t_pc = "cand" /\ srch.ci <= Len(srch.candidates)
C19_SameStart ==
    ReplayDue => sim.eef = FreshSim.eef /\ sim.gripper = FreshSim.gripper

\* C21: in a task with unlimited set, a viewpoint for the episode and a
\* wrapper constructed, the search never moves the displacement: there is
\* one dry run, at the initial displacement, it succeeds, the commit replay
\* follows it at the same displacement without raising, and the task returns
\* (robot, episode, true).
UnlimitedTask == t_args.unlimited /\ ~NoViewpoint /\ srch # <<>>
C21_State ==
    UnlimitedTask =>
        /\ srch.displacement = InitialDisplacement(t_args, files)
        /\ n_dry <= 1 /\ n_commit <= n_dry
        /\ srch.it = 0
        /\ n_dry = 1 => /\ t_pc \in {"commit", "returned"}
                        /\ srch.ok /\ srch.ci = 1
                        /\ srch.candidates[1] = srch.displacement
        /\ t_pc # "raised"
        /\ t_pc = "returned" =>
              /\ n_dry = 1 /\ n_commit = 1
              /\ ~last.raised /\ last.result.success
              /\ ~last.call.dry_run
              /\ last.call.robot_disp = InitialDisplacement(t_args, files)
              /\ t_ret = <<t_args.robot, t_args.episode, TRUE>>
C21_Order ==
    UnlimitedTask =>
        /\ n_dry' # n_dry => n_dry = 0 /\ n_commit = 0 /\ t_pc' = "commit"
        /\ n_commit' # n_commit => n_dry = 1 /\ n_dry' = 1 /\ t_pc' = "returned"
C21_UnlimitedNoSearch == []C21_State /\ [][C21_Order]_vars
C21_Witness ==
    /\ UnlimitedTask /\ t_pc = "returned" /\ n_dry = 1 /\ n_commit = 1
    /\ t_ret[3] = TRUE
    /\ Len(data.pos) >= 2
    /\ sim.eef # reach_further(VSub(data.pos[Len(data.pos)], srch.displacement),
                               ExtendGripper)

\* ----------------------------------------------- claims on the search alone
Offsets ==
    <<Zero3, <<1, 0, 0>>, <<-1, 0, 0>>, <<0, 1, 0>>, <<0, -1, 0>>, <<0, 0, 1>>,
      <<0, 0, -1>>>>
Scaled(k, v) == <<k * v[1], k * v[2], k * v[3]>>
RECURSIVE Pow2(_)
Pow2(n) == IF n = 0 THEN 1 ELSE 2 * Pow2(n - 1)
\* The first dry run of the round among those that completed the most steps.
FirstBest(log) ==
    CHOOSE j \in 1..Len(log) :
        /\ \A i \in 1..Len(log) : log[i].steps <= log[j].steps
        /\ \A i \in 1..(j - 1) : log[i].steps < log[j].steps
RoundFailed == t_pc = "round" /\ Len(round_log) = 7 /\ \A i \in 1..7 : ~round_log[i].ok

\* C14: after r rounds the step is 0.05 / 2^r; the candidates of a round are
\* the center and its perturbations +X, -X, +Y, -Y, +Z, -Z by the step; when
\* the 7 dry runs of a round all fail, the new displacement is the first
\* candidate among those with the most steps, the center when no other
\* candidate completed strictly more, and the step is halved.
C14_FailedRoundAdoption ==
    /\ srch.step * Pow2(srch.it) = StepInit
    /\ t_pc = "cand" =>
          \A k \in 1..7 :
              srch.candidates[k]
                = VAdd(srch.candidates[1], Scaled(srch.step, Offsets[k]))
    /\ RoundFailed =>
          /\ srch.displacement = srch.candidates[FirstBest(round_log)]
          /\ (\A i \in 2..7 : round_log[i].steps <= round_log[1].steps)
                => srch.displacement = srch.candidates[1]
          /\ srch.candidates[1]
                = VSub(srch.candidates[2], Scaled(2 * srch.step, Offsets[2]))
C14_Witness ==
    /\ RoundFailed /\ srch.it = 2
    /\ FirstBest(round_log) = 4
    /\ round_log[6].steps = round_log[4].steps
    /\ srch.displacement # srch.candidates[1]

\* ------------------------------------------------------- claims on main
Requested == Elems(args.target_robot)
TaskSet == {tasks[i] : i \in Indices}
\* The pairs a run has to do, given the whitelists it found.
Expected(wl) ==
    {p \in [robot : Requested, ep : 0..(num_eps - 1)] : p.ep \notin Elems(wl[p.robot])}
Enumerated == d_pc \in {"pool", "done", "crashed"}
MainOver == d_pc \in {"done", "crashed"}
AllFinished == \A i \in 1..Len(futures) : futures[i] # "pending"
SucceededEps(r) ==
    {tasks[i].ep : i \in {j \in 1..Len(futures) : tasks[j].robot = r /\ futures[j] = "ok"}}
NoDup(seq) == \A i, j \in 1..Len(seq) : seq[i] = seq[j] => i = j
\* The episodes of robot r among the tasks seq lists, in order.
RECURSIVE EpsOf(_, _)
EpsOf(seq, r) ==
    IF seq = <<>> THEN <<>>
    ELSE (IF tasks[Head(seq)].robot = r THEN <<tasks[Head(seq)].ep>> ELSE <<>>)
         \o EpsOf(Tail(seq), r)

\* C1: once main is over and every submitted task has finished, the whitelist
\* of every robot holds what it held when the run began and the episodes of
\* the tasks that returned success=true, whatever the order of completion.
C1_FinalWhitelist ==
    (MainOver /\ AllFinished)
        => \A r \in Robots : Elems(whitelist[r]) = Elems(wl0[r]) \cup SucceededEps(r)

\* C2: no task raises out of the worker: every finished future holds a tuple,
\* the result loop of main is never left on an exception, and it yields the
\* result of every task.
C2_ErrorsBecomeFailures ==
    /\ \A i \in 1..Len(futures) : futures[i] # "raised"
    /\ d_pc # "crashed"
    /\ (d_pc = "done" /\ tasks # <<>>) => yielded = Indices

\* C4: main appends an episode to a whitelist only with the result of a task
\* that returned success=true: the whitelists are those of the start of the
\* run followed by the episodes of such tasks, in the order of their results.
C4_OnlySuccessAppended ==
    /\ \A k \in 1..Len(appended) : futures[appended[k]] = "ok"
    /\ \A i \in yielded : futures[i] = "failed" => i \notin Elems(appended)
    /\ \A r \in Robots : whitelist[r] = wl0[r] \o EpsOf(appended, r)
C4_Witness ==
    /\ d_pc = "done"
    /\ \E i, j \in yielded :
          /\ futures[i] = "failed" /\ futures[j] = "ok"
          /\ tasks[i].robot = tasks[j].robot
          /\ j \in Elems(appended)

\* C7: the tasks submitted are the pairs of a requested robot and an episode
\* of the dataset that the robot's whitelist does not hold, once each when no
\* robot is requested twice (three tasks for two robots, two episodes and one
\* whitelisted pair); a run that follows a run whose tasks all succeeded
\* submits nothing, replays nothing and leaves whitelists and files as found.
C7_TasksSubmitted ==
    /\ Enumerated =>
         /\ TaskSet = Expected(wl0)
         /\ NoDup(args.target_robot) => Len(tasks) = Cardinality(Expected(wl0))
         /\ d_pc = "pool" => Len(futures) = Len(tasks)
         /\ (/\ Len(args.target_robot) = 2 /\ NoDup(args.target_robot) /\ num_eps = 2
             /\ Len(wl0[args.target_robot[1]]) + Len(wl0[args.target_robot[2]]) = 1)
              => Len(tasks) = 3
    /\ (run > 1 /\ prev_clean) =>
         /\ tasks = <<>> /\ futures = <<>>
         /\ d_pc \in {"enumerate", "done"}
         /\ replays = 0
         /\ whitelist = wl0
         /\ files = run_files0
C7_Witness ==
    /\ run = 2 /\ prev_clean /\ d_pc = "done"
    /\ Len(args.target_robot) = 2 /\ num_eps = 2
    /\ Len(wl0[args.target_robot[1]]) = 2 /\ run_files0 # {}

\* C11: every episode the run has appended to a whitelist, and every task
\* that has returned success, has its mask video, its RGB video and its state
\* archive on disk.
HasArtifacts(p) == Cardinality(Artifacts(files, p.robot, p.ep)) = 3
C11_WhitelistedHaveArtifacts ==
    /\ \A k \in 1..Len(appended) : HasArtifacts(tasks[appended[k]])
    /\ \A i \in 1..Len(futures) : futures[i] = "ok" => HasArtifacts(tasks[i])
C11_Witness ==
    /\ d_pc = "pool" /\ Len(appended) = 2
    /\ tasks[appended[1]].robot # tasks[appended[2]].robot
    /\ \E i \in 1..Len(futures) : futures[i] = "pending"

\* C20: no pair of a robot and an episode is submitted twice in a run of main,
\* and a whitelist that listed no episode twice when the run started lists
\* none twice afterwards.
C20_NoDuplicates ==
    /\ NoDup(tasks)
    /\ \A r \in Robots : NoDup(wl0[r]) => NoDup(whitelist[r])

\* ---------------------------------------------------- claims on two runs
InBlock(p) == l_pc[p] \in {"held", "loaded", "body", "stored"}
\* C12: a run loads, changes and writes a whitelist only while it holds the
\* lock of that file, no two runs are in a block on the same file at once,
\* every episode whose append block has ended is in the file, and no step
\* removes an episode from a file.
C12_LockHeld ==
    /\ \A p \in Procs : InBlock(p) => l_lock[Head(l_todo[p]).robot] = p
    /\ \A p, q \in Procs :
          (InBlock(p) /\ InBlock(q) /\ Head(l_todo[p]).robot = Head(l_todo[q]).robot)
              => p = q
    /\ \A a \in l_acked : a.ep \in Elems(whitelist[a.robot])
C12_OnlyGrows ==
    \A r \in Robots : Elems(whitelist[r]) \subseteq Elems(whitelist'[r])
C12_NoLostUpdate == []C12_LockHeld /\ [][C12_OnlyGrows]_vars
C12_Witness ==
    /\ \A p \in Procs : l_pc[p] = "out" /\ l_todo[p] = <<>>
    /\ Cardinality(l_acked) = 2
    /\ \A a \in l_acked : a.robot = "Sawyer"
    /\ Len(whitelist["Sawyer"]) = Len(wl0["Sawyer"]) + 3

====
